---------------------------- MODULE Spec2Model ----------------------------
(***************************************************************************)
(* EduChat character adaptation engine: the emotion detector, the state    *)
(* adapter, the enhanced memory table and its ranked retrieval, the token  *)
(* budget and the turn pipeline of EnhancedResponseGenerator.              *)
(*                                                                         *)
(* Conventions.  Scalars the code keeps as floats in [0,1] with one        *)
(* decimal (patience, energy, confidence, formality, enthusiasm) are       *)
(* integers in tenths (0.5 is 5).  Texts are TLA+ strings handled          *)
(* character by character (Len, SubSeq, \o), so substring tests, slices    *)
(* and lower-casing are computed, not assumed.  Timestamps are values of   *)
(* a logical clock that ticks at every datetime.now() of the store.        *)
(***************************************************************************)
EXTENDS Integers, Sequences, FiniteSets, TLC

VARIABLES
    characters,        \* EnhancedResponseGenerator.characters: name -> dynamic state (one shared object per name)
    character_states,  \* table character_states: (character, user) -> persisted dynamic state, or NoRow
    memory,            \* table enhanced_character_memory: sequence of rows, the row id is the index
    clock,             \* logical time of the store
    pc,                \* per request slot: position in generate_enhanced_response
    args,              \* per request slot: the arguments of the turn
    loc,               \* per request slot: the locals of the turn
    snap,              \* history variable: the world when the current round of turns started
    served,            \* history variable: the pairs for which a turn has started
    turns,             \* number of turns started so far
    inp,               \* arguments of the last call of the operation under check
    out                \* return value of that call

vars == <<characters, character_states, memory, clock, pc, args, loc, snap, served, turns, inp, out>>

turnVars == <<characters, character_states, pc, args, loc, snap, served, turns>>

None == "none"

\* No call of the operation under check yet, and no return value
NoCall == [op |-> "none"]

NoResult == <<>>

Min(a, b) == IF a < b THEN a ELSE b

Max(a, b) == IF a > b THEN a ELSE b

(***************************************************************************)
(* Text helpers: Python's str.lower, `in`, count, slicing and split.       *)
(***************************************************************************)
UpperCase == <<"A","B","C","D","E","F","G","H","I","J","K","L","M","N","O","P","Q","R","S","T","U","V","W","X","Y","Z">>

LowerCase == <<"a","b","c","d","e","f","g","h","i","j","k","l","m","n","o","p","q","r","s","t","u","v","w","x","y","z">>

LowerChar(c) ==
    IF \E i \in 1..26 : UpperCase[i] = c
    THEN LowerCase[CHOOSE i \in 1..26 : UpperCase[i] = c]
    ELSE c

\* Python s.lower(), for the ASCII letters
RECURSIVE Lower(_)
Lower(s) ==
    IF Len(s) = 0 THEN ""
    ELSE IF Len(s) = 1 THEN LowerChar(s)
    ELSE LET half == Len(s) \div 2
         IN Lower(SubSeq(s, 1, half)) \o Lower(SubSeq(s, half + 1, Len(s)))

\* Python `w in s`
Contains(s, w) ==
    \E i \in 1..(Len(s) - Len(w) + 1) : SubSeq(s, i, i + Len(w) - 1) = w

\* Python s[:n]
Prefix(s, n) == SubSeq(s, 1, Min(n, Len(s)))

\* Python s.count(c) for a one-character c
CountChar(s, c) == Cardinality({i \in 1..Len(s) : SubSeq(s, i, i) = c})

IsSpace(c) == c \in {" ", "\t", "\n"}

\* Python len(s.split()): the number of maximal runs of non-whitespace
WordCount(s) ==
    Cardinality({i \in 1..Len(s) :
        /\ ~IsSpace(SubSeq(s, i, i))
        /\ (i = 1 \/ IsSpace(SubSeq(s, i - 1, i - 1)))})

\* Python any(word in s for word in words)
AnyIn(words, s) == \E w \in words : Contains(s, w)

(***************************************************************************)
(* EmotionalState and the emotion detector.                                *)
(***************************************************************************)
FRUSTRATED == "frustrated"
EXCITED == "excited"
CONFUSED == "confused"
CONFIDENT == "confident"
BORED == "bored"
ENGAGED == "engaged"
OVERWHELMED == "overwhelmed"
CURIOUS == "curious"

EmotionalState == {FRUSTRATED, EXCITED, CONFUSED, CONFIDENT, BORED, ENGAGED, OVERWHELMED, CURIOUS}

frustration_words == {"confused", "don't understand", "frustrated", "stuck", "hard", "difficult"}

excitement_words == {"awesome", "cool", "amazing", "love this", "great", "excited"}

confusion_words == {"what", "how", "why", "explain", "huh", "?"}

boredom_words == {"boring", "tired", "whatever", "ok", "sure"}

\* len(message_content) < 10
MinMessageLength == 10

\* The variant of the cascade that tests the excitement cues first.
detect_user_emotion_excitement_first(message_content) ==
    LET content_lower == Lower(message_content) IN
    IF AnyIn(excitement_words, content_lower) THEN <<EXCITED, 7>>
    ELSE IF AnyIn(frustration_words, content_lower) THEN <<FRUSTRATED, 8>>
    ELSE IF CountChar(content_lower, "?") > 1 \/ AnyIn(confusion_words, content_lower)
         THEN <<CONFUSED, 6>>
    ELSE IF AnyIn(boredom_words, content_lower) \/ Len(message_content) < MinMessageLength
         THEN <<BORED, 5>>
    ELSE <<ENGAGED, 3>>

\* The variant of the cascade that tests the boredom cues before the
\* confusion cues.
detect_user_emotion_boredom_before_confusion(message_content) ==
    LET content_lower == Lower(message_content) IN
    IF AnyIn(frustration_words, content_lower) THEN <<FRUSTRATED, 8>>
    ELSE IF AnyIn(excitement_words, content_lower) THEN <<EXCITED, 7>>
    ELSE IF AnyIn(boredom_words, content_lower) \/ Len(message_content) < MinMessageLength
         THEN <<BORED, 5>>
    ELSE IF CountChar(content_lower, "?") > 1 \/ AnyIn(confusion_words, content_lower)
         THEN <<CONFUSED, 6>>
    ELSE <<ENGAGED, 3>>

\* EmotionalAdapter.detect_user_emotion: (emotion, confidence in tenths)
detect_user_emotion(message_content) ==
    LET content_lower == Lower(message_content) IN
    IF AnyIn(frustration_words, content_lower) THEN <<FRUSTRATED, 8>>
    ELSE IF AnyIn(excitement_words, content_lower) THEN <<EXCITED, 7>>
    ELSE IF CountChar(content_lower, "?") > 1 \/ AnyIn(confusion_words, content_lower)
         THEN <<CONFUSED, 6>>
    ELSE IF AnyIn(boredom_words, content_lower) \/ Len(message_content) < MinMessageLength
         THEN <<BORED, 5>>
    ELSE <<ENGAGED, 3>>

(***************************************************************************)
(* DynamicState and the state adapter.                                     *)
(***************************************************************************)
\* The clamp 1.0 of min(1.0, ...), in tenths.
FullScale == 10

AdaptationModes == {"balanced", "supportive", "challenging"}

\* DynamicState(): the dataclass defaults of the fields the turn reads or writes
DefaultDynamicState ==
    [current_patience |-> 5, energy_level |-> 7, adaptation_mode |-> "balanced",
     detected_user_emotion |-> ENGAGED]

\* A table in which boredom leads back to the balanced mode.
adaptation_map_bored_balanced ==
    (FRUSTRATED :> [patience_adjustment |-> 3, adaptation_mode |-> "supportive"]) @@
    (EXCITED :> [energy_boost |-> 2, adaptation_mode |-> "challenging"]) @@
    (CONFUSED :> [patience_adjustment |-> 4, adaptation_mode |-> "supportive"]) @@
    (BORED :> [energy_boost |-> 4, adaptation_mode |-> "balanced"]) @@
    (OVERWHELMED :> [patience_adjustment |-> 5, adaptation_mode |-> "supportive"])

\* A table in which confusion raises patience as frustration does.
adaptation_map_confused_as_frustrated ==
    (FRUSTRATED :> [patience_adjustment |-> 3, adaptation_mode |-> "supportive"]) @@
    (EXCITED :> [energy_boost |-> 2, adaptation_mode |-> "challenging"]) @@
    (CONFUSED :> [patience_adjustment |-> 3, adaptation_mode |-> "supportive"]) @@
    (BORED :> [energy_boost |-> 4, adaptation_mode |-> "challenging"]) @@
    (OVERWHELMED :> [patience_adjustment |-> 5, adaptation_mode |-> "supportive"])

\* A table with an entry for the engaged user.
adaptation_map_with_engaged ==
    (FRUSTRATED :> [patience_adjustment |-> 3, adaptation_mode |-> "supportive"]) @@
    (EXCITED :> [energy_boost |-> 2, adaptation_mode |-> "challenging"]) @@
    (CONFUSED :> [patience_adjustment |-> 4, adaptation_mode |-> "supportive"]) @@
    (BORED :> [energy_boost |-> 4, adaptation_mode |-> "challenging"]) @@
    (OVERWHELMED :> [patience_adjustment |-> 5, adaptation_mode |-> "supportive"]) @@
    (ENGAGED :> [adaptation_mode |-> "supportive"])

\* adaptation_map of adapt_character_state: the keys the function reads
adaptation_map ==
    (FRUSTRATED :> [patience_adjustment |-> 3, adaptation_mode |-> "supportive"]) @@
    (EXCITED :> [energy_boost |-> 2, adaptation_mode |-> "challenging"]) @@
    (CONFUSED :> [patience_adjustment |-> 4, adaptation_mode |-> "supportive"]) @@
    (BORED :> [energy_boost |-> 4, adaptation_mode |-> "challenging"]) @@
    (OVERWHELMED :> [patience_adjustment |-> 5, adaptation_mode |-> "supportive"])

\* The adapter without the min(1.0, ...) clamps.
adapt_character_state_unclamped(ds, user_emotion) ==
    IF user_emotion \in DOMAIN adaptation_map
    THEN LET adaptations == adaptation_map[user_emotion]
             keys == DOMAIN adaptations
         IN [current_patience |->
                 IF "patience_adjustment" \in keys
                 THEN ds.current_patience + adaptations.patience_adjustment
                 ELSE ds.current_patience,
             energy_level |->
                 IF "energy_boost" \in keys
                 THEN ds.energy_level + adaptations.energy_boost
                 ELSE ds.energy_level,
             adaptation_mode |->
                 IF "adaptation_mode" \in keys
                 THEN adaptations.adaptation_mode
                 ELSE ds.adaptation_mode,
             detected_user_emotion |-> user_emotion]
    ELSE ds

\* An adapter that records the detected emotion whether or not it is handled.
adapt_character_state_always_records(ds, user_emotion) ==
    [adapt_character_state_unclamped(ds, user_emotion) EXCEPT
        !.current_patience = Min(FullScale, @),
        !.energy_level = Min(FullScale, @),
        !.detected_user_emotion = user_emotion]

\* An adapter in which a patience-raising emotion calms the character down.
adapt_character_state_calming(ds, user_emotion) ==
    LET adapted == adapt_character_state_unclamped(ds, user_emotion)
    IN [adapted EXCEPT
           !.current_patience = Min(FullScale, @),
           !.energy_level = IF adapted.current_patience > ds.current_patience
                            THEN Max(0, ds.energy_level - 1)
                            ELSE Min(FullScale, @)]

\* EmotionalAdapter.adapt_character_state, as the new value of character.dynamic_state
adapt_character_state(ds, user_emotion) ==
    IF user_emotion \in DOMAIN adaptation_map
    THEN LET adaptations == adaptation_map[user_emotion]
             keys == DOMAIN adaptations
         IN [current_patience |->
                 IF "patience_adjustment" \in keys
                 THEN Min(FullScale, ds.current_patience + adaptations.patience_adjustment)
                 ELSE ds.current_patience,
             energy_level |->
                 IF "energy_boost" \in keys
                 THEN Min(FullScale, ds.energy_level + adaptations.energy_boost)
                 ELSE ds.energy_level,
             adaptation_mode |->
                 IF "adaptation_mode" \in keys
                 THEN adaptations.adaptation_mode
                 ELSE ds.adaptation_mode,
             detected_user_emotion |-> user_emotion]
    ELSE ds

(***************************************************************************)
(* Table enhanced_character_memory and its two operations.                 *)
(***************************************************************************)
\* The row store_enhanced_memory inserts at time now
NewMemoryRow(character_name, user_id, memory_type, content, importance, emotional_context, confidence, now) ==
    [character_name |-> character_name, user_id |-> user_id, memory_type |-> memory_type,
     content |-> content, importance_score |-> importance,
     emotional_context |-> emotional_context, confidence_score |-> confidence,
     created_at |-> now, last_accessed |-> now, access_count |-> 0]

\* EnhancedEduChatDatabase.store_enhanced_memory: the table after the INSERT
store_enhanced_memory(mem, row) == Append(mem, row)

\* The WHERE clause without the importance filter.
MatchingAnyImportance(mem, character_name, user_id, min_importance) ==
    {i \in 1..Len(mem) :
        /\ mem[i].character_name = character_name
        /\ mem[i].user_id = user_id}

\* WHERE character_name = ? AND user_id = ? AND importance_score >= ?
Matching(mem, character_name, user_id, min_importance) ==
    {i \in 1..Len(mem) :
        /\ mem[i].character_name = character_name
        /\ mem[i].user_id = user_id
        /\ mem[i].importance_score >= min_importance}

\* An ordering that leaves out the confidence key.
RanksBeforeNoConfidence(mem, a, b) ==
    \/ mem[a].importance_score > mem[b].importance_score
    \/ /\ mem[a].importance_score = mem[b].importance_score
       /\ mem[a].last_accessed > mem[b].last_accessed
    \/ /\ mem[a].importance_score = mem[b].importance_score
       /\ mem[a].last_accessed = mem[b].last_accessed
       /\ a < b

\* ORDER BY importance_score DESC, confidence_score DESC, last_accessed DESC;
\* rows equal on all three keys keep the order of insertion
RanksBefore(mem, a, b) ==
    \/ mem[a].importance_score > mem[b].importance_score
    \/ /\ mem[a].importance_score = mem[b].importance_score
       /\ mem[a].confidence_score > mem[b].confidence_score
    \/ /\ mem[a].importance_score = mem[b].importance_score
       /\ mem[a].confidence_score = mem[b].confidence_score
       /\ mem[a].last_accessed > mem[b].last_accessed
    \/ /\ mem[a].importance_score = mem[b].importance_score
       /\ mem[a].confidence_score = mem[b].confidence_score
       /\ mem[a].last_accessed = mem[b].last_accessed
       /\ a < b

\* The ids of a set of rows in ORDER BY order
Ordered(mem, S) ==
    [k \in 1..Cardinality(S) |->
        CHOOSE a \in S : Cardinality({b \in S : RanksBefore(mem, b, a)}) = k - 1]

\* The query without its LIMIT.
SelectIdsUnlimited(mem, character_name, user_id, limit, min_importance) ==
    Ordered(mem, Matching(mem, character_name, user_id, min_importance))

\* The SELECT of get_enhanced_memories: ids in rank order, LIMIT limit (limit >= 0)
SelectIds(mem, character_name, user_id, limit, min_importance) ==
    LET S == Matching(mem, character_name, user_id, min_importance)
    IN SubSeq(Ordered(mem, S), 1, Min(limit, Cardinality(S)))

\* An UPDATE loop that touches last_accessed and forgets access_count.
TouchNoCount(mem, ids, now) ==
    [i \in 1..Len(mem) |->
        IF \E k \in 1..Len(ids) : ids[k] = i
        THEN [mem[i] EXCEPT !.last_accessed = now + (CHOOSE k \in 1..Len(ids) : ids[k] = i) - 1]
        ELSE mem[i]]

\* The UPDATE loop of get_enhanced_memories: the k-th selected row gets
\* access_count + 1 and the k-th datetime.now() of the loop
Touch(mem, ids, now) ==
    [i \in 1..Len(mem) |->
        IF \E k \in 1..Len(ids) : ids[k] = i
        THEN [mem[i] EXCEPT !.access_count = @ + 1,
                            !.last_accessed = now + (CHOOSE k \in 1..Len(ids) : ids[k] = i) - 1]
        ELSE mem[i]]

\* The rows of the first SELECT, as read before the UPDATE loop
SelectedRows(mem, ids) == [k \in 1..Len(ids) |-> mem[ids[k]]]

(***************************************************************************)
(* The world of the response generator: names, users, request slots.       *)
(***************************************************************************)
\* default_names of _initialize_enhanced_characters that the model follows
KnownNames == {"Aino", "Mase"}

\* A name that is not in self.characters
UnknownNames == {"Zed"}

Users == {"u1", "u2"}

Pairs == (KnownNames \cup UnknownNames) \X Users

Slots == {1, 2}

\* Idle request slot: no arguments, no locals
NoArgs == [character_name |-> "", user_id |-> "", user_message |-> ""]

NoLoc ==
    [name |-> "", shared |-> FALSE, local_state |-> DefaultDynamicState,
     user_emotion |-> ENGAGED, emotion_confidence |-> 3, db_memories |-> <<>>,
     api |-> "", error |-> "", max_tokens |-> <<>>, response_text |-> "",
     metadata |-> <<>>, raised |-> "", write_error |-> ""]

\* The state right after EnhancedResponseGenerator(db) on a fresh database
TurnWorldInit ==
    /\ characters = [n \in KnownNames |-> DefaultDynamicState]
    /\ character_states = [p \in Pairs |-> <<>>]
    /\ pc = [t \in Slots |-> "idle"]
    /\ args = [t \in Slots |-> NoArgs]
    /\ loc = [t \in Slots |-> NoLoc]
    /\ snap = [characters |-> [n \in KnownNames |-> DefaultDynamicState], memory |-> <<>>, clock |-> 0]
    /\ served = {}
    /\ turns = 0

(***************************************************************************)
(* SpecDetect: detect_user_emotion applied to every message of a bounded   *)
(* set.  A message is up to MaxWords words of Vocabulary joined by single  *)
(* spaces, or one of ExtraMessages.                                        *)
(***************************************************************************)
MaxWords == 2

Vocabulary ==
    {"confused", "STUCK", "orchard", "don't", "understand", "awesome", "Great",
     "what", "why?", "??", "boring", "ok", "lesson", "Finnish", "grammar"}

ExtraMessages ==
    {" ", "   ", "Let us read a Finnish lesson today",
     "Can you help me with another Finnish lesson?",
     "I'm really confused about Finnish grammar, can you explain it again?",
     "I'm confused about investment strategies. There's so much information..."}

RECURSIVE Sentences(_)
Sentences(n) ==
    IF n = 0 THEN {""}
    ELSE LET shorter == Sentences(n - 1)
         IN shorter \cup {(IF m = "" THEN "" ELSE m \o " ") \o w : m \in shorter, w \in Vocabulary}

Messages == Sentences(MaxWords) \cup ExtraMessages

InitDetect ==
    /\ TurnWorldInit
    /\ memory = <<>>
    /\ clock = 0
    /\ inp \in Messages
    /\ out = NoResult

DetectCall ==
    /\ out = NoResult
    /\ out' = detect_user_emotion(inp)
    /\ UNCHANGED <<turnVars, memory, clock, inp>>

NextDetect == DetectCall

SpecDetect == InitDetect /\ [][NextDetect]_vars

(***************************************************************************)
(* SpecAdapt: adapt_character_state called again and again, with any       *)
(* emotion, from any dynamic state with patience and energy in [0,1].      *)
(***************************************************************************)
DynamicStates ==
    [current_patience : 0..FullScale, energy_level : 0..FullScale,
     adaptation_mode : AdaptationModes, detected_user_emotion : EmotionalState]

InitAdapt ==
    /\ TurnWorldInit
    /\ memory = <<>>
    /\ clock = 0
    /\ inp = None
    /\ out \in DynamicStates

AdaptCall ==
    \E user_emotion \in EmotionalState :
        /\ inp' = user_emotion
        /\ out' = adapt_character_state(out, user_emotion)
        /\ UNCHANGED <<turnVars, memory, clock>>

NextAdapt == AdaptCall

SpecAdapt == InitAdapt /\ [][NextAdapt]_vars

(***************************************************************************)
(* SpecMode: adapt_character_state called again and again, with any        *)
(* emotion, on a dynamic state that starts as DynamicState() builds it.    *)
(***************************************************************************)
InitMode ==
    /\ TurnWorldInit
    /\ memory = <<>>
    /\ clock = 0
    /\ inp = None
    /\ out = DefaultDynamicState

SpecMode == InitMode /\ [][NextAdapt]_vars

\* The dynamic states some sequence of adapt_character_state calls, the empty
\* one included, makes of a state of S
RECURSIVE AdaptClosure(_)
AdaptClosure(S) ==
    LET T == S \cup {adapt_character_state(ds, user_emotion) :
                         ds \in S, user_emotion \in EmotionalState}
    IN IF T = S THEN S ELSE AdaptClosure(T)

\* The adaptation modes one or more calls can lead to from ds
ModesAhead(ds) ==
    {d.adaptation_mode :
        d \in AdaptClosure({adapt_character_state(ds, user_emotion) :
                                user_emotion \in EmotionalState})}

(***************************************************************************)
(* SpecMem: store_enhanced_memory and get_enhanced_memories called in any  *)
(* order on the table, for several pairs.                                  *)
(***************************************************************************)
MaxRecords == 3

\* The limits the calls pass
LimitValues == {0, 1, 2}

MaxClock == 4

MemPairs == {<<"Aino", "u1">>, <<"Aino", "u2">>, <<"Mase", "u1">>}

\* (pair, importance, confidence in tenths) of the rows the calls insert: the
\* first pair gets a row below the default min_importance 3.0 and two rows
\* above it that differ in confidence, the other pairs one kind of row
MemRowChoices ==
    {<<<<"Aino", "u1">>, 2, 8>>, <<<<"Aino", "u1">>, 5, 5>>, <<<<"Aino", "u1">>, 5, 8>>}
        \cup ({<<"Aino", "u2">>, <<"Mase", "u1">>} \X {5} \X {8})

MinImportanceValues == {0, 3}

InitMem ==
    /\ TurnWorldInit
    /\ memory = <<>>
    /\ clock = 0
    /\ inp = NoCall
    /\ out = NoResult

StoreCall ==
    \E choice \in MemRowChoices :
        LET p == choice[1]
            importance == choice[2]
            confidence == choice[3]
        IN
        /\ Len(memory) < MaxRecords
        /\ clock < MaxClock
        /\ memory' = store_enhanced_memory(memory,
               NewMemoryRow(p[1], p[2], "preference", "note", importance, "neutral", confidence, clock))
        /\ clock' = clock + 1
        /\ inp' = [op |-> "store", character_name |-> p[1], user_id |-> p[2],
                   importance |-> importance, confidence |-> confidence, id |-> Len(memory) + 1]
        /\ out' = NoResult
        /\ UNCHANGED turnVars

\* get_enhanced_memories: out is the sequence of rows the SELECT read (the
\* function returns their projection without ids, names and last_accessed)
RetrieveCall ==
    \E p \in MemPairs, limit \in LimitValues, min_importance \in MinImportanceValues :
        LET ids == SelectIds(memory, p[1], p[2], limit, min_importance) IN
        /\ clock + Len(ids) <= MaxClock
        /\ memory' = Touch(memory, ids, clock)
        /\ clock' = clock + Len(ids)
        /\ inp' = [op |-> "get", character_name |-> p[1], user_id |-> p[2],
                   limit |-> limit, min_importance |-> min_importance, ids |-> ids]
        /\ out' = SelectedRows(memory, ids)
        /\ UNCHANGED turnVars

NextMem == StoreCall \/ RetrieveCall

SpecMem == InitMem /\ [][NextMem]_vars

(***************************************************************************)
(* The token budget.  Products of the float multipliers are carried in     *)
(* thousandths of a token, each multiplier applied as an integer ratio     *)
(* with the quotient floored; the float product can differ from this in    *)
(* the last unit only.                                                     *)
(***************************************************************************)
\* character_base_needs.get(character.name, 150)
BaseTokens(name) ==
    CASE name = "Aino" -> 180
      [] name = "Mase" -> 120
      [] name = "Anna" -> 160
      [] name = "Bee" -> 170
      [] OTHER -> 150

\* complexity_multiplier, in tenths
ComplexityMultiplier(word_count) ==
    IF word_count > 25 THEN 16
    ELSE IF word_count > 15 THEN 13
    ELSE IF word_count > 8 THEN 11
    ELSE 10

educational_indicators ==
    {"explain", "how", "why", "what", "teach", "learn", "show me",
     "help me understand", "tell me about", "describe", "clarify",
     "difference between", "compare", "example", "step by step"}

\* educational_score: the number of indicator phrases in the lower-cased message
EducationalScore(user_message) ==
    LET message_lower == Lower(user_message)
    IN Cardinality({phrase \in educational_indicators : Contains(message_lower, phrase)})

\* patience_adjustments.get(patience_level, 1.0), in hundredths
PatienceMultiplier(patience_level) ==
    CASE patience_level = 1 -> 85
      [] patience_level = 2 -> 95
      [] patience_level = 3 -> 100
      [] patience_level = 4 -> 115
      [] patience_level = 5 -> 130
      [] OTHER -> 100

\* question_multiplier, in tenths
QuestionMultiplier(user_message) ==
    IF Contains(user_message, "?")
    THEN IF AnyIn({"how to", "step by step"}, Lower(user_message)) THEN 13
         ELSE IF CountChar(user_message, "?") > 1 THEN 14
         ELSE 10
    ELSE 10

\* min(len(db_memories) * 25, 80) if db_memories else 0
MemoryTokens(n_memories) == IF n_memories > 0 THEN Min(n_memories * 25, 80) ELSE 0

\* calculated_tokens: int(base * complexity * educational * personality * question + memory),
\* with formality_multiplier = 1 + (formality - 3) * 0.05 = (170 + F) / 200 and
\* enthusiasm_multiplier = 1 + enthusiasm * 0.1 = (100 + E) / 100 for F, E in tenths
CalculatedTokens(name, patience_level, formality_level, enthusiasm_level, user_message, n_memories) ==
    LET v0 == BaseTokens(name) * 1000
        v1 == (v0 * ComplexityMultiplier(WordCount(user_message))) \div 10
        v2 == (v1 * (100 + 25 * EducationalScore(user_message))) \div 100
        v3 == (v2 * PatienceMultiplier(patience_level)) \div 100
        v4 == (v3 * (170 + formality_level)) \div 200
        v5 == (v4 * (100 + enthusiasm_level)) \div 100
        v6 == (v5 * QuestionMultiplier(user_message)) \div 10
    IN (v6 + MemoryTokens(n_memories) * 1000) \div 1000

\* The budget returned without the final bounds.
calculate_dynamic_response_tokens_unbounded(name, patience_level, formality_level, enthusiasm_level, user_message, n_memories) ==
    CalculatedTokens(name, patience_level, formality_level, enthusiasm_level, user_message, n_memories)

\* EnhancedResponseGenerator.calculate_dynamic_response_tokens
calculate_dynamic_response_tokens(name, patience_level, formality_level, enthusiasm_level, user_message, n_memories) ==
    Max(200, Min(CalculatedTokens(name, patience_level, formality_level, enthusiasm_level, user_message, n_memories), 700))

(***************************************************************************)
(* SpecBudget: calculate_dynamic_response_tokens applied to every          *)
(* character, message and memory-list length of a bounded set.             *)
(***************************************************************************)
\* The longest db_memories list handed to the budget
MaxMemoryList == 5

BudgetNames == {"Aino", "Mase", "Anna", "Bee", "Zed"}

\* PatientLevel values
PatienceRanks == 1..5

\* formality_level and enthusiasm_level, in tenths
TraitValues == {0, 5, 10}

RECURSIVE Filler(_)
Filler(n) == IF n = 0 THEN "" ELSE "la " \o Filler(n - 1)

BudgetMessages ==
    {"", "ok", "Teach me", "How to say hello?", "why? what??",
     Filler(9) \o "please",
     Filler(16) \o "explain this example",
     Filler(26) \o "done",
     Filler(12) \o "Can you explain how and why, step by step? Teach me and show me "
         \o "what to compare, describe and clarify the difference between each example, "
         \o "help me understand, tell me about it so I learn?"}

BudgetInputs ==
    [name : BudgetNames, patience_level : PatienceRanks, formality_level : TraitValues,
     enthusiasm_level : TraitValues, user_message : BudgetMessages,
     n_memories : 0..MaxMemoryList]

InitBudget ==
    /\ TurnWorldInit
    /\ memory = <<>>
    /\ clock = 0
    /\ inp \in BudgetInputs
    /\ out = NoResult

BudgetCall ==
    /\ out = NoResult
    /\ out' = <<calculate_dynamic_response_tokens(inp.name, inp.patience_level,
                    inp.formality_level, inp.enthusiasm_level, inp.user_message, inp.n_memories)>>
    /\ UNCHANGED <<turnVars, memory, clock, inp>>

NextBudget == BudgetCall

SpecBudget == InitBudget /\ [][NextBudget]_vars

(***************************************************************************)
(* The response generator: one turn of generate_enhanced_response, in the  *)
(* steps at which calls of other requests can come in between.             *)
(***************************************************************************)
\* CharacterFactory.create_aino_enhanced: the core attributes the turn reads.
\* Every name outside self.characters is served by a fresh copy of this
\* character (_create_default_character), whose name is "Aino".
AinoProfile ==
    [name |-> "Aino", patience_level |-> 5, patience_name |-> "VERY_HIGH",
     formality_level |-> 6, enthusiasm_level |-> 8]

\* CharacterFactory.create_mase_enhanced
MaseProfile ==
    [name |-> "Mase", patience_level |-> 3, patience_name |-> "MODERATE",
     formality_level |-> 2, enthusiasm_level |-> 6]

\* The character object a turn works with, by its name
Profile(name) == IF name = "Mase" THEN MaseProfile ELSE AinoProfile

\* Python s.replace("_", " ")
RECURSIVE UnderscoresToSpaces(_)
UnderscoresToSpaces(s) ==
    IF Len(s) = 0 THEN ""
    ELSE IF Len(s) = 1 THEN (IF s = "_" THEN " " ELSE s)
    ELSE LET half == Len(s) \div 2
         IN UnderscoresToSpaces(SubSeq(s, 1, half)) \o UnderscoresToSpaces(SubSeq(s, half + 1, Len(s)))

\* patience_level.name.lower().replace('_', ' ')
PatienceDesc(profile) == UnderscoresToSpaces(Lower(profile.patience_name))

\* _generate_enhanced_fallback_response; error_reason "" stands for None
\* (both are falsy), formality is in tenths
generate_enhanced_fallback_response(character_name, patience_desc, formality, adaptation_mode, error_reason) ==
    LET base_response ==
            CASE character_name = "Aino" ->
                    ("Anteeksi (sorry)! I'm having connection issues, but I'm still here with "
                        \o patience_desc \o " patience to help you learn Finnish!")
                    \o (IF adaptation_mode = "supportive"
                        THEN " Let's take this step by step when I'm back online." ELSE "")
              [] character_name = "Mase" ->
                    ("Yo, tech hiccup on my end! Running on " \o patience_desc \o " patience here.")
                    \o (IF adaptation_mode = "energetic"
                        THEN " I was ready to drop some knowledge too!" ELSE "")
              [] character_name = "Anna" ->
                    ("My apologies - technical difficulties. With " \o patience_desc
                        \o " patience, I'm not going anywhere.")
                    \o (IF formality >= 40
                        THEN " I shall return momentarily."
                        ELSE " I'll be back to share wisdom soon!")
              [] character_name = "Bee" ->
                    ("Connection error detected. My " \o patience_desc
                        \o " patience levels are handling this gracefully.")
                    \o (IF adaptation_mode = "analytical"
                        THEN " Analyzing optimal response patterns." ELSE "")
              [] OTHER ->
                    "Connection issues, but my " \o patience_desc \o " patience keeps me optimistic!"
    IN IF error_reason # "" /\ ~Contains(error_reason, "CharacterMemory") /\ Len(error_reason) < 100
       THEN base_response \o " (Technical: " \o Prefix(error_reason, 30) \o "...)"
       ELSE base_response

\* What the language-model collaborator does in a turn: it answers, there is
\* no API key, or the call raises (a timeout raises like any other error)
ApiOutcomes ==
    {[kind |-> "ok", text |-> "Hyva! Let us practise together.", error |-> ""],
     [kind |-> "nokey", text |-> "", error |-> ""],
     [kind |-> "error", text |-> "", error |-> "Request timed out."]}

\* A call that hands back nothing when the collaborator is unavailable.
call_anthropic_api_no_fallback(outcome, profile, adaptation_mode) ==
    IF outcome.kind = "ok" THEN outcome.text ELSE ""

\* _call_anthropic_api: the text it returns
call_anthropic_api(outcome, profile, adaptation_mode) ==
    CASE outcome.kind = "nokey" ->
            generate_enhanced_fallback_response(profile.name, PatienceDesc(profile),
                profile.formality_level, adaptation_mode, "")
      [] outcome.kind = "error" ->
            generate_enhanced_fallback_response(profile.name, PatienceDesc(profile),
                profile.formality_level, adaptation_mode, outcome.error)
      [] OTHER -> outcome.text

\* _calculate_memory_importance
calculate_memory_importance(user_emotion, user_message) ==
    LET emotion_modifier ==
            CASE user_emotion = FRUSTRATED -> 2
              [] user_emotion = EXCITED -> 1
              [] user_emotion = CONFUSED -> 2
              [] user_emotion = OVERWHELMED -> 3
              [] OTHER -> 0
        learning_bonus ==
            IF AnyIn({"learn", "teach", "explain", "help", "understand", "practice"}, Lower(user_message))
            THEN 2 ELSE 0
    IN Min(5 + emotion_modifier + learning_bonus, 10)

\* The content of the branch for a character without a memory object, which
\* leaves the reply out.
MemoryContentWithoutReply(user_message, response_text) ==
    "User: '" \o Prefix(user_message, 50) \o "...'"

\* memory_content of _update_character_after_interaction
MemoryContent(user_message, response_text) ==
    "User: '" \o Prefix(user_message, 50) \o "...' Topic: " \o Prefix(response_text, 30) \o "..."

\* save_character_state is declared (self, character, user_id) and called
\* with (character.name, user_id, dynamic_state, character_memory)
SaveCharacterStateParameters == 2

SaveCharacterStateArguments == 4

\* The call raises TypeError, which the caller swallows, unless the counts agree
SaveCharacterStateRaises == SaveCharacterStateArguments # SaveCharacterStateParameters

\* The messages users send in the turns of the model
TurnMessages == {"I am stuck, please explain", "this is awesome"}

\* limit=5 of the retrieval in generate_enhanced_response
TurnMemoryLimit == 5

\* min_importance: float = 3.0, the default of get_enhanced_memories
DefaultMinImportance == 3

\* default confidence: float = 0.8 of store_enhanced_memory, in tenths
DefaultConfidence == 8

MaxTurns == 2

\* The characters generate_enhanced_response can hand to its steps
ServingNames == {AinoProfile.name, MaseProfile.name}

\* _call_anthropic_api over the outcomes, characters and modes of the turns
ReplyOf ==
    [outcome \in ApiOutcomes, name \in ServingNames, adaptation_mode \in AdaptationModes |->
        call_anthropic_api(outcome, Profile(name), adaptation_mode)]

\* calculate_dynamic_response_tokens over the characters, messages and
\* retrieved lists of the turns
BudgetOf ==
    [name \in ServingNames, user_message \in TurnMessages, n_memories \in 0..TurnMemoryLimit |->
        calculate_dynamic_response_tokens(name, Profile(name).patience_level,
            Profile(name).formality_level, Profile(name).enthusiasm_level,
            user_message, n_memories)]

\* _calculate_memory_importance over the emotions and messages of the turns
ImportanceOf ==
    [user_emotion \in EmotionalState, user_message \in TurnMessages |->
        calculate_memory_importance(user_emotion, user_message)]

\* The dynamic state a turn works on: character.dynamic_state
TurnState(t) == IF loc[t].shared THEN characters[loc[t].name] ELSE loc[t].local_state

\* _classify_interaction_type
classify_interaction_type(user_message) ==
    LET message_lower == Lower(user_message)
    IN IF AnyIn({"hi", "hello", "hey", "good morning", "good evening"}, message_lower)
       THEN "greeting"
       ELSE IF Contains(user_message, "?")
       THEN (IF AnyIn({"how", "what", "why", "when", "where"}, message_lower)
             THEN "question_educational" ELSE "question_general")
       ELSE IF AnyIn({"thank", "thanks", "appreciate"}, message_lower)
       THEN "gratitude"
       ELSE IF AnyIn({"learn", "teach", "practice", "study"}, message_lower)
       THEN "learning_request"
       ELSE "conversation"

\* _detect_educational_content
detect_educational_content(user_message) ==
    AnyIn({"explain", "how", "why", "what", "teach", "learn", "show", "help",
           "understand", "clarify", "describe", "tell me about"}, Lower(user_message))

\* The entries of the analytics that depend on the user's message alone
MessageAnalytics(user_message) ==
    [user_message_length |-> WordCount(user_message),
     interaction_type |-> classify_interaction_type(user_message),
     educational_content |-> detect_educational_content(user_message)]

\* MessageAnalytics over the messages of the turns
MessageAnalyticsOf == [user_message \in TurnMessages |-> MessageAnalytics(user_message)]

\* str(e) of the AttributeError: the database class has no method
\* record_interaction_analytics
AnalyticsStorageError ==
    "'EnhancedEduChatDatabase' object has no attribute 'record_interaction_analytics'"

\* _record_interaction_analytics: the dictionary it returns, which is the
\* metadata of the turn
record_interaction_analytics(user_id, character_name, message_analytics, response_text, user_emotion, emotion_confidence, adaptation_mode, now) ==
    [timestamp |-> now,
     user_id |-> user_id,
     character_name |-> character_name,
     user_message_length |-> message_analytics.user_message_length,
     response_length |-> WordCount(response_text),
     user_emotion |-> user_emotion,
     emotion_confidence |-> emotion_confidence,
     adaptation_mode |-> adaptation_mode,
     interaction_type |-> message_analytics.interaction_type,
     educational_content |-> message_analytics.educational_content,
     response_generation_success |-> Prefix(response_text, 6) # "[Error",
     analytics_storage_error |-> AnalyticsStorageError]

\* Step 7 of the turn in slot t, at time now
TurnAnalytics(t, now) ==
    record_interaction_analytics(args[t].user_id, args[t].character_name,
        MessageAnalyticsOf[args[t].user_message], loc[t].response_text,
        loc[t].user_emotion, loc[t].emotion_confidence, TurnState(t).adaptation_mode, now)

World == [characters |-> characters, memory |-> memory, clock |-> clock]

\* load_character_for_user, then step 1 (detect_user_emotion)
Begin(t, character_name, user_id, user_message) ==
    /\ pc[t] = "idle"
    /\ turns < MaxTurns
    /\ turns' = turns + 1
    /\ pc' = [pc EXCEPT ![t] = "loaded"]
    /\ args' = [args EXCEPT ![t] = [character_name |-> character_name, user_id |-> user_id,
                                    user_message |-> user_message]]
    /\ LET known == character_name \in DOMAIN characters
           row == character_states[<<character_name, user_id>>]
           detected == detect_user_emotion(user_message)
       IN /\ characters' = IF known /\ row # <<>>
                           THEN [characters EXCEPT ![character_name] = row[1]]
                           ELSE characters
          /\ loc' = [loc EXCEPT ![t] =
                        [NoLoc EXCEPT !.name = IF known THEN character_name ELSE AinoProfile.name,
                                      !.shared = known,
                                      !.user_emotion = detected[1],
                                      !.emotion_confidence = detected[2]]]
    /\ snap' = IF \A s \in Slots : pc[s] = "idle" THEN World ELSE snap
    /\ UNCHANGED <<character_states, memory, clock, served, inp, out>>

\* Step 2: adapt_character_state on character.dynamic_state
Adapt(t) ==
    /\ pc[t] = "loaded"
    /\ pc' = [pc EXCEPT ![t] = "adapted"]
    /\ IF loc[t].shared
       THEN /\ characters' = [characters EXCEPT ![loc[t].name] =
                                 adapt_character_state(@, loc[t].user_emotion)]
            /\ loc' = loc
       ELSE /\ loc' = [loc EXCEPT ![t].local_state =
                          adapt_character_state(@, loc[t].user_emotion)]
            /\ characters' = characters
    /\ UNCHANGED <<character_states, memory, clock, args, snap, served, turns, inp, out>>

\* Step 3: get_enhanced_memories(character_name, user_id, limit=5); step 4
\* (the context) writes nothing
Retrieve(t) ==
    /\ pc[t] = "adapted"
    /\ pc' = [pc EXCEPT ![t] = "retrieved"]
    /\ LET ids == SelectIds(memory, args[t].character_name, args[t].user_id,
                            TurnMemoryLimit, DefaultMinImportance)
       IN /\ memory' = Touch(memory, ids, clock)
          /\ clock' = clock + Len(ids)
          /\ loc' = [loc EXCEPT ![t].db_memories = SelectedRows(memory, ids)]
    /\ UNCHANGED <<characters, character_states, args, snap, served, turns, inp, out>>

\* Step 5: _call_anthropic_api; max_tokens is the budget handed to a call
\* that answers
CallApi(t, outcome) ==
    /\ pc[t] = "retrieved"
    /\ pc' = [pc EXCEPT ![t] = "called"]
    /\ loc' = [loc EXCEPT
                  ![t].api = outcome.kind,
                  ![t].error = outcome.error,
                  ![t].max_tokens =
                      IF outcome.kind = "ok"
                      THEN <<BudgetOf[loc[t].name, args[t].user_message, Len(loc[t].db_memories)]>>
                      ELSE <<>>,
                  ![t].response_text =
                      ReplyOf[outcome, loc[t].name, TurnState(t).adaptation_mode]]
    /\ UNCHANGED <<characters, character_states, memory, clock, args, snap, served, turns, inp, out>>

\* Steps 6 and 7: _update_character_after_interaction (CharacterMemory has
\* none of store_memory, add_memory, memories, so the row goes to the table;
\* DynamicState has neither last_interaction nor interaction_count), then
\* _record_interaction_analytics, then return
Update(t) ==
    /\ pc[t] = "called"
    /\ pc' = [pc EXCEPT ![t] = "done"]
    /\ memory' = store_enhanced_memory(memory,
           NewMemoryRow(loc[t].name, args[t].user_id, "interaction",
               MemoryContent(args[t].user_message, loc[t].response_text),
               ImportanceOf[loc[t].user_emotion, args[t].user_message],
               loc[t].user_emotion, DefaultConfidence, clock))
    /\ clock' = clock + 1
    /\ character_states' =
           IF SaveCharacterStateRaises THEN character_states
           ELSE [character_states EXCEPT ![<<loc[t].name, args[t].user_id>>] = <<TurnState(t)>>]
    /\ loc' = [loc EXCEPT ![t].metadata =
                  <<TurnAnalytics(t, clock + 1)>>]
    /\ served' = served \cup {<<args[t].character_name, args[t].user_id>>}
    /\ UNCHANGED <<characters, args, snap, turns, inp, out>>

\* The callers take their replies; the next round of turns can start
Return ==
    /\ \A t \in Slots : pc[t] \in {"idle", "done"}
    /\ \E t \in Slots : pc[t] = "done"
    /\ pc' = [t \in Slots |-> "idle"]
    /\ args' = [t \in Slots |-> NoArgs]
    /\ loc' = [t \in Slots |-> NoLoc]
    /\ UNCHANGED <<characters, character_states, memory, clock, snap, served, turns, inp, out>>

\* EnhancedResponseGenerator(db) again (a new process, or the standalone
\* generate_enhanced_ai_response): characters are rebuilt from the profiles
NewGenerator ==
    /\ \A t \in Slots : pc[t] = "idle"
    /\ turns > 0
    /\ characters # [n \in KnownNames |-> DefaultDynamicState]
    /\ characters' = [n \in KnownNames |-> DefaultDynamicState]
    /\ UNCHANGED <<character_states, memory, clock, pc, args, loc, snap, served, turns, inp, out>>

\* generate_enhanced_response from call to return with no other call in
\* between, on the world w; no row of character_states exists to load, since
\* save_character_state never writes one
SerialTurn(w, character_name, user_id, user_message, outcome) ==
    LET known == character_name \in DOMAIN w.characters
        name == IF known THEN character_name ELSE AinoProfile.name
        detected == detect_user_emotion(user_message)
        adapted == adapt_character_state(
                       IF known THEN w.characters[name] ELSE DefaultDynamicState, detected[1])
        ids == SelectIds(w.memory, character_name, user_id, TurnMemoryLimit, DefaultMinImportance)
        response_text == call_anthropic_api(outcome, Profile(name), adapted.adaptation_mode)
    IN [characters |-> IF known THEN [w.characters EXCEPT ![name] = adapted] ELSE w.characters,
        memory |-> store_enhanced_memory(Touch(w.memory, ids, w.clock),
                       NewMemoryRow(name, user_id, "interaction",
                           MemoryContent(user_message, response_text),
                           calculate_memory_importance(detected[1], user_message),
                           detected[1], DefaultConfidence, w.clock + Len(ids))),
        clock |-> w.clock + Len(ids) + 1]

\* The table without the two columns that hold datetime.now()
WithoutTimes(mem) ==
    [i \in 1..Len(mem) |-> [mem[i] EXCEPT !.created_at = 0, !.last_accessed = 0]]

TurnStep(t) ==
    \/ \E character_name \in KnownNames \cup UnknownNames, user_id \in Users,
          user_message \in TurnMessages :
            Begin(t, character_name, user_id, user_message)
    \/ Adapt(t)
    \/ Retrieve(t)
    \/ \E outcome \in ApiOutcomes : CallApi(t, outcome)
    \/ Update(t)

InitTurn ==
    /\ TurnWorldInit
    /\ memory = <<>>
    /\ clock = 0
    /\ inp = NoCall
    /\ out = NoResult

\* SpecSeq: one caller, turns one after the other
NextSeq == TurnStep(1) \/ Return \/ NewGenerator

SpecSeq == InitTurn /\ [][NextSeq]_vars

\* A call of generate_enhanced_response runs to its return
SpecSeqFair ==
    /\ SpecSeq
    /\ WF_vars(Adapt(1))
    /\ WF_vars(Retrieve(1))
    /\ WF_vars(\E outcome \in ApiOutcomes : CallApi(1, outcome))
    /\ WF_vars(Update(1))

\* SpecTurn: two callers on one generator, their turns interleaved step by step
NextTurn == (\E t \in Slots : TurnStep(t)) \/ Return \/ NewGenerator

SpecTurn == InitTurn /\ [][NextTurn]_vars

(***************************************************************************)
(* The turn on a store that can fail: sqlite3 raises on a read or on an    *)
(* INSERT (a locked or unreadable database file).                          *)
(***************************************************************************)
\* str(e) of the sqlite3.OperationalError
DatabaseError == "database is locked"

\* Step 3 when get_enhanced_memories raises: the call at line 104 stands
\* before the try of generate_enhanced_response, so the exception leaves the
\* function; the adaptation of step 2 stays
RetrieveRaises(t) ==
    /\ pc[t] = "adapted"
    /\ pc' = [pc EXCEPT ![t] = "raised"]
    /\ loc' = [loc EXCEPT ![t].raised = DatabaseError]
    /\ UNCHANGED <<characters, character_states, memory, clock, args, snap, served, turns, inp, out>>

\* content of the second INSERT, in the except branch of
\* _update_character_after_interaction
FallbackMemoryContent(user_message) == "Interaction: " \o Prefix(user_message, 30) \o "..."

\* importance 3 of the second INSERT
FallbackImportance == 3

\* Steps 6 and 7 when store_enhanced_memory raises: the except branch of
\* _update_character_after_interaction tries a second INSERT, which goes
\* through (second_insert_ok) or raises too and is dropped; save_character_state
\* is not reached; the turn returns its reply and metadata as ever
UpdateInsertRaises(t, second_insert_ok) ==
    /\ pc[t] = "called"
    /\ pc' = [pc EXCEPT ![t] = "done"]
    /\ IF second_insert_ok
       THEN /\ memory' = store_enhanced_memory(memory,
                   NewMemoryRow(loc[t].name, args[t].user_id, "interaction_fallback",
                       FallbackMemoryContent(args[t].user_message), FallbackImportance,
                       "unknown", DefaultConfidence, clock))
            /\ clock' = clock + 1
       ELSE UNCHANGED <<memory, clock>>
    /\ loc' = [loc EXCEPT
                  ![t].write_error = DatabaseError,
                  ![t].metadata =
                      <<TurnAnalytics(t, clock + 1)>>]
    /\ served' = served \cup {<<args[t].character_name, args[t].user_id>>}
    /\ UNCHANGED <<characters, character_states, args, snap, turns, inp, out>>

\* The caller of generate_enhanced_response gets the exception, no reply
CallerCatches ==
    /\ \E t \in Slots : pc[t] = "raised"
    /\ \A t \in Slots : pc[t] \in {"idle", "done", "raised"}
    /\ pc' = [t \in Slots |-> "idle"]
    /\ args' = [t \in Slots |-> NoArgs]
    /\ loc' = [t \in Slots |-> NoLoc]
    /\ UNCHANGED <<characters, character_states, memory, clock, snap, served, turns, inp, out>>

\* SpecFault: one caller, turns one after the other, on a store that can fail
NextFault ==
    \/ TurnStep(1)
    \/ RetrieveRaises(1)
    \/ \E second_insert_ok \in BOOLEAN : UpdateInsertRaises(1, second_insert_ok)
    \/ Return
    \/ CallerCatches
    \/ NewGenerator

SpecFault == InitTurn /\ [][NextFault]_vars

(***************************************************************************)
(* AdvancedMemoryEngine: the memories extracted from one conversation turn *)
(* by regular-expression templates.  A template is a sequence of tokens; a *)
(* token is the set of its literal alternatives, in lower case because the *)
(* search is re.IGNORECASE, and the empty set stands for the group (.+).   *)
(***************************************************************************)
AnyText == {}

\* _setup_memory_extractors, in the order of the dict
memory_extractors ==
    << <<"preferences",
         << <<{"i "}, {"like", "love", "enjoy", "prefer"}, {" "}, AnyText>>,
            <<{"i "}, {"don't like", "hate", "dislike"}, {" "}, AnyText>>,
            <<{"i usually "}, AnyText>>,
            <<{"i always "}, AnyText>>,
            <<{"my favorite "}, AnyText, {" is "}, AnyText>> >> >>,
       <<"learning_style",
         << <<{"i learn best when "}, AnyText>>,
            <<{"i understand better if "}, AnyText>>,
            <<{"can you explain "}, AnyText, {" more simply"}>>,
            <<{"i'm confused about "}, AnyText>>,
            <<{"that makes sense now"}>>,
            <<{"i need more practice with "}, AnyText>> >> >>,
       <<"facts",
         << <<{"i am "}, AnyText>>,
            <<{"i work as "}, AnyText>>,
            <<{"i live in "}, AnyText>>,
            <<{"my "}, AnyText, {" is "}, AnyText>>,
            <<{"i have "}, AnyText>>,
            <<{"i study "}, AnyText>>,
            <<{"i'm learning "}, AnyText>> >> >>,
       <<"goals",
         << <<{"i want to "}, AnyText>>,
            <<{"i'm trying to "}, AnyText>>,
            <<{"my goal is "}, AnyText>>,
            <<{"i hope to "}, AnyText>>,
            <<{"i need to "}, AnyText>> >> >>,
       <<"emotional_context",
         << <<{"i'm "}, {"excited", "frustrated", "confused", "happy", "sad", "worried"},
              {" "}, AnyText>>,
            <<{"that's "}, {"amazing", "terrible", "confusing", "helpful", "difficult"},
              {" "}, AnyText>>,
            <<{"i feel "}, AnyText, {" about "}, AnyText>> >> >> >>

\* _setup_topic_keywords, in the order of the dict
topic_keywords ==
    << <<"finnish_language", {"finnish", "suomi", "pronunciation", "grammar", "vocabulary",
                              "tervetuloa", "kiitos", "hei", "moi", "sisu", "sauna"}>>,
       <<"learning_methods", {"study", "practice", "learn", "understand", "remember",
                              "flashcards", "exercises", "homework", "repeat"}>>,
       <<"technology", {"computer", "programming", "data", "python", "code",
                        "software", "app", "website", "ai", "algorithm"}>>,
       <<"health_fitness", {"exercise", "running", "gym", "nutrition", "diet",
                            "training", "workout", "health", "fitness"}>>,
       <<"family_personal", {"family", "mother", "father", "child", "home", "personal",
                             "private", "relationship", "friend", "brother", "sister"}>>,
       <<"school_work", {"school", "work", "job", "teacher", "homework", "class",
                         "meeting", "project", "assignment"}>> >>

\* The positions after the end of a match of the tokens k.. of a template
\* that starts at position i of the lower-cased text; `.` does not match a
\* newline
RECURSIVE MatchEnds(_, _, _, _)
MatchEnds(tokens, k, low, i) ==
    IF k > Len(tokens) THEN {i}
    ELSE IF tokens[k] = AnyText
    THEN UNION {MatchEnds(tokens, k + 1, low, j + 1) :
                   j \in {j \in i..Len(low) : \A h \in i..j : SubSeq(low, h, h) # "\n"}}
    ELSE UNION {MatchEnds(tokens, k + 1, low, i + Len(a)) :
                   a \in {a \in tokens[k] : /\ i + Len(a) - 1 <= Len(low)
                                            /\ SubSeq(low, i, i + Len(a) - 1) = a}}

\* The greatest element of a non-empty set of positions: every (.+) is
\* greedy, and no template has alternatives of which one is a prefix of
\* another
Greatest(S) == CHOOSE e \in S : \A f \in S : f <= e

\* re.finditer(pattern, text, re.IGNORECASE): match.group(0) of the
\* non-overlapping matches from the left, searching on from position start
RECURSIVE finditer(_, _, _, _)
finditer(tokens, text, low, start) ==
    LET starts == {i \in start..Len(text) : MatchEnds(tokens, 1, low, i) # {}}
    IN IF starts = {} THEN <<>>
       ELSE LET i == CHOOSE i \in starts : \A h \in starts : i <= h
                e == Greatest(MatchEnds(tokens, 1, low, i))
            IN <<SubSeq(text, i, e - 1)>> \o finditer(tokens, text, low, e)

\* The characters lo..hi of ' '.join(content.split()): a run of whitespace
\* inside the text is one blank, a run at either end is dropped
RECURSIVE JoinSplit(_, _, _)
JoinSplit(content, lo, hi) ==
    IF lo > hi THEN ""
    ELSE IF lo = hi
    THEN IF ~IsSpace(SubSeq(content, lo, lo)) THEN SubSeq(content, lo, lo)
         ELSE IF /\ lo > 1
                 /\ ~IsSpace(SubSeq(content, lo - 1, lo - 1))
                 /\ \E h \in (lo + 1)..Len(content) : ~IsSpace(SubSeq(content, h, h))
              THEN " "
              ELSE ""
    ELSE LET half == (lo + hi) \div 2
         IN JoinSplit(content, lo, half) \o JoinSplit(content, half + 1, hi)

\* if len(content) > 200
MaxContentLength == 200

\* AdvancedMemoryEngine._clean_memory_content
clean_memory_content(content) ==
    LET joined == JoinSplit(content, 1, Len(content))
    IN IF Len(joined) > MaxContentLength
       THEN Prefix(joined, MaxContentLength) \o "..."
       ELSE joined

base_scores ==
    [preferences |-> 6, learning_style |-> 8, facts |-> 7, goals |-> 9,
     emotional_context |-> 5, correction |-> 9, achievement |-> 8]

high_value_keywords ==
    {"goal", "important", "always", "never", "love", "hate", "struggling", "confused"}

common_phrases == {"i think", "maybe", "probably", "sometimes"}

\* AdvancedMemoryEngine._calculate_importance (context is not used)
calculate_importance(memory_type, content) ==
    LET low == Lower(content)
        score == base_scores[memory_type]
                 + Cardinality({w \in high_value_keywords : Contains(low, w)})
                 + (IF AnyIn({"finnish", "suomi", "language"}, low) THEN 1 ELSE 0)
                 + (IF AnyIn({"family", "together", "help"}, low) THEN 1 ELSE 0)
                 - Cardinality({w \in common_phrases : Contains(low, w)})
    IN Max(1, Min(10, score))

\* AdvancedMemoryEngine._extract_topics
extract_topics(text) ==
    LET low == Lower(text)
        Tagged(entry) == AnyIn(entry[2], low)
        tagged == SelectSeq(topic_keywords, Tagged)
    IN [i \in 1..Len(tagged) |-> tagged[i][1]]

\* AdvancedMemoryEngine._detect_emotional_context
detect_emotional_context(text) ==
    LET low == Lower(text)
    IN IF AnyIn({"happy", "excited", "love", "great", "amazing", "wonderful", "easy", "fun"}, low)
            THEN "positive"
       ELSE IF AnyIn({"sad", "frustrated", "hate", "terrible", "awful"}, low) THEN "negative"
       ELSE IF AnyIn({"difficult", "hard", "confused", "struggle", "can't"}, low)
            THEN "difficulty"
       ELSE IF AnyIn({"understand", "learn", "practice", "study", "remember"}, low)
            THEN "learning"
       ELSE "neutral"

\* The fields of a MemoryItem the extraction decides
MemoryItem(memory_type, content, importance_score, topics, emotional_context) ==
    [memory_type |-> memory_type, content |-> content,
     importance_score |-> importance_score, topics |-> topics,
     emotional_context |-> emotional_context]

\* The records of one template
PatternMemories(memory_type, tokens, user_message) ==
    LET matches == finditer(tokens, user_message, Lower(user_message), 1)
        topics == extract_topics(user_message)
        emotional_context == detect_emotional_context(user_message)
    IN [m \in 1..Len(matches) |->
           LET memory_content == clean_memory_content(matches[m])
           IN MemoryItem(memory_type, memory_content,
                         calculate_importance(memory_type, memory_content),
                         topics, emotional_context)]

\* The records of the templates p.. of the memory type at position e
RECURSIVE TypeMemories(_, _, _)
TypeMemories(e, p, user_message) ==
    IF p > Len(memory_extractors[e][2]) THEN <<>>
    ELSE PatternMemories(memory_extractors[e][1], memory_extractors[e][2][p], user_message)
         \o TypeMemories(e, p + 1, user_message)

\* The records of the memory types e..
RECURSIVE ExtractorMemories(_, _)
ExtractorMemories(e, user_message) ==
    IF e > Len(memory_extractors) THEN <<>>
    ELSE TypeMemories(e, 1, user_message) \o ExtractorMemories(e + 1, user_message)

\* user_message[:50] and character_response[:50]
QuoteLength == 50

\* AdvancedMemoryEngine.extract_memories_from_conversation
extract_memories_from_conversation(user_message, character_response) ==
    ExtractorMemories(1, user_message)
    \o (IF \/ Contains(Lower(character_response), "actually")
           \/ Contains(Lower(character_response), "correct")
        THEN <<MemoryItem("correction",
                          "Corrected user about: " \o Prefix(user_message, QuoteLength) \o "...",
                          8, extract_topics(user_message), "learning")>>
        ELSE <<>>)
    \o (IF AnyIn({"i understand", "makes sense", "i see", "thank you"}, Lower(user_message))
        THEN <<MemoryItem("achievement",
                          "User understood: " \o Prefix(character_response, QuoteLength) \o "...",
                          7, extract_topics(character_response), "positive")>>
        ELSE <<>>)

(***************************************************************************)
(* SpecExtract: extract_memories_from_conversation called once on a user   *)
(* message and a character response.                                       *)
(***************************************************************************)
RECURSIVE Repeat(_, _)
Repeat(s, n) == IF n = 0 THEN "" ELSE s \o Repeat(s, n - 1)

\* A message with a match of more than 200 characters
LongMessage == "I want to " \o Repeat("practise the Finnish verbs ", 8)

ExtractMessages ==
    {"",
     "I see",
     "Let us read a Finnish lesson today",
     "I'm really confused about Finnish grammar, can you explain it again?",
     "I'm confused about Finnish grammar",
     "I'm sad I think maybe probably sometimes",
     "I want to reach my goal, it is important, I always love Finnish together",
     "Can you explain the partitive more simply please",
     "My favorite word is sisu",
     "I like   Finnish  \n I always study at home ",
     "That makes sense now, thank you",
     "I feel good about my family and I hope to work as a teacher",
     "hello   there,\tmy   friend",
     LongMessage}

ExtractResponses ==
    {"",
     "Hyva! Let us practise together.",
     "Actually, the correct form is 'kiitos'.",
     "That is  correct:\n  sauna"}

NotExtracted == [called |-> FALSE, memories |-> <<>>]

InitExtract ==
    /\ TurnWorldInit
    /\ memory = <<>>
    /\ clock = 0
    /\ inp \in [user_message : ExtractMessages, character_response : ExtractResponses]
    /\ out = NotExtracted

ExtractCall ==
    /\ ~out.called
    /\ out' = [called |-> TRUE,
               memories |-> extract_memories_from_conversation(inp.user_message,
                                                               inp.character_response)]
    /\ UNCHANGED <<turnVars, memory, clock, inp>>

NextExtract == ExtractCall

SpecExtract == InitExtract /\ [][NextExtract]_vars

(***************************************************************************)
(* ContextBuilder.build_session_context, and SpecSession: one call of it   *)
(* on a conversation history and a limit.                                  *)
(***************************************************************************)
\* Python s.strip() of a text that does not start with whitespace
RECURSIVE RStrip(_)
RStrip(s) ==
    IF Len(s) > 0 /\ IsSpace(SubSeq(s, Len(s), Len(s)))
    THEN RStrip(SubSeq(s, 1, Len(s) - 1))
    ELSE s

\* msg.get(key, default) of a turn, a record that may lack the key
Get(msg, key, default) == IF key \in DOMAIN msg THEN msg[key] ELSE default

\* msg.get('content', '')[:200]
SessionContentLength == 200

StartOfConversation == "This is the start of a new conversation."

\* The lines of the turns i.. of recent_messages
RECURSIVE SessionLines(_, _)
SessionLines(recent_messages, i) ==
    IF i > Len(recent_messages) THEN ""
    ELSE Get(recent_messages[i], "sender", "Unknown") \o ": "
         \o Prefix(Get(recent_messages[i], "content", ""), SessionContentLength) \o "\n"
         \o SessionLines(recent_messages, i + 1)

\* The variant that keeps the first `limit` turns
build_session_context_first_turns(conversation_history, limit) ==
    IF Len(conversation_history) = 0 THEN StartOfConversation
    ELSE RStrip("RECENT CONVERSATION:\n"
                \o SessionLines(SubSeq(conversation_history, 1,
                                       Min(limit, Len(conversation_history))), 1))

\* ContextBuilder.build_session_context, for a limit of 1 or more:
\* conversation_history[-limit:] is the last min(limit, n) turns
build_session_context(conversation_history, limit) ==
    IF Len(conversation_history) = 0 THEN StartOfConversation
    ELSE LET n == Len(conversation_history)
             recent_messages == SubSeq(conversation_history, n - Min(limit, n) + 1, n)
         IN RStrip("RECENT CONVERSATION:\n" \o SessionLines(recent_messages, 1))

\* The longest conversation history
MaxHistory == 3

\* def build_session_context(conversation_history, limit: int = 8)
DefaultSessionLimit == 8

\* The only caller passes no limit; the smaller ones make the cut happen on
\* a short history
SessionLimits == {1, 2, DefaultSessionLimit}

\* A content of more than 200 characters
LongContent == Repeat("Minulla on kysymys. ", 11)

\* The turns of a history, one without a sender and one without a content
SessionTurns ==
    [sender : {"You", "Aino"}, content : {"moi", "kiitos  ", LongContent}]
        \cup {[content |-> "hei"], [sender |-> "You"]}

RECURSIVE Histories(_)
Histories(n) ==
    IF n = 0 THEN {<<>>}
    ELSE Histories(n - 1)
         \cup {Append(h, turn) : h \in {h \in Histories(n - 1) : Len(h) = n - 1},
                                 turn \in SessionTurns}

NotRendered == [called |-> FALSE, text |-> ""]

InitSession ==
    /\ TurnWorldInit
    /\ memory = <<>>
    /\ clock = 0
    /\ inp \in [conversation_history : Histories(MaxHistory), limit : SessionLimits]
    /\ out = NotRendered

SessionCall ==
    /\ ~out.called
    /\ out' = [called |-> TRUE,
               text |-> build_session_context(inp.conversation_history, inp.limit)]
    /\ UNCHANGED <<turnVars, memory, clock, inp>>

NextSession == SessionCall

SpecSession == InitSession /\ [][NextSession]_vars

(***************************************************************************)
(* OptimizedEduChatDatabase: the character_memory table behind             *)
(* build_character_context, and SpecOptimized: store_character_memory and  *)
(* get_character_memories_optimized called in any order.                   *)
(***************************************************************************)
\* A row of character_memory: the table has no access_count column
NewCharacterMemoryRow(character_name, user_id, memory_type, content, importance, now) ==
    [character_name |-> character_name, user_id |-> user_id, memory_type |-> memory_type,
     content |-> content, importance_score |-> importance,
     created_at |-> now, last_accessed |-> now]

\* OptimizedEduChatDatabase.store_character_memory: the table after the INSERT
store_character_memory(mem, row) == Append(mem, row)

\* UPDATE character_memory SET last_accessed = ? WHERE character_name = ?
\* AND user_id = ?
TouchPair(mem, character_name, user_id, now) ==
    [i \in 1..Len(mem) |->
        IF mem[i].character_name = character_name /\ mem[i].user_id = user_id
        THEN [mem[i] EXCEPT !.last_accessed = now]
        ELSE mem[i]]

\* ORDER BY importance_score DESC, datetime(last_accessed) DESC,
\* datetime(created_at) DESC; rows equal on all three keys keep the order of
\* insertion
RanksBeforeOptimized(mem, a, b) ==
    \/ mem[a].importance_score > mem[b].importance_score
    \/ /\ mem[a].importance_score = mem[b].importance_score
       /\ mem[a].last_accessed > mem[b].last_accessed
    \/ /\ mem[a].importance_score = mem[b].importance_score
       /\ mem[a].last_accessed = mem[b].last_accessed
       /\ mem[a].created_at > mem[b].created_at
    \/ /\ mem[a].importance_score = mem[b].importance_score
       /\ mem[a].last_accessed = mem[b].last_accessed
       /\ mem[a].created_at = mem[b].created_at
       /\ a < b

\* The SELECT of get_character_memories_optimized on the table the UPDATE
\* left: ids in rank order, LIMIT limit
SelectIdsOptimized(mem, character_name, user_id, limit) ==
    LET S == {i \in 1..Len(mem) :
                 mem[i].character_name = character_name /\ mem[i].user_id = user_id}
        ordered == [k \in 1..Cardinality(S) |->
                       CHOOSE a \in S :
                           Cardinality({b \in S : RanksBeforeOptimized(mem, b, a)}) = k - 1]
    IN SubSeq(ordered, 1, Min(limit, Cardinality(S)))

OptimizedPairs == {<<"Aino", "u1">>, <<"Mase", "u1">>}

OptimizedImportances == {3, 5}

OptimizedLimits == {1, 2}

InitOptimized ==
    /\ TurnWorldInit
    /\ memory = <<>>
    /\ clock = 0
    /\ inp = NoCall
    /\ out = NoResult

OptimizedStoreCall ==
    \E p \in OptimizedPairs, importance \in OptimizedImportances :
        /\ Len(memory) < MaxRecords
        /\ clock < MaxClock
        /\ memory' = store_character_memory(memory,
               NewCharacterMemoryRow(p[1], p[2], "facts", "note", importance, clock))
        /\ clock' = clock + 1
        /\ inp' = [op |-> "store", character_name |-> p[1], user_id |-> p[2],
                   ids |-> <<Len(memory) + 1>>]
        /\ out' = NoResult
        /\ UNCHANGED turnVars

\* get_character_memories_optimized: out is the sequence of rows the SELECT
\* read (the function returns their content, type, importance, created_at)
OptimizedRetrieveCall ==
    \E p \in OptimizedPairs, limit \in OptimizedLimits :
        LET touched == TouchPair(memory, p[1], p[2], clock)
            ids == SelectIdsOptimized(touched, p[1], p[2], limit)
        IN
        /\ clock < MaxClock
        /\ memory' = touched
        /\ clock' = clock + 1
        /\ inp' = [op |-> "get", character_name |-> p[1], user_id |-> p[2], ids |-> ids]
        /\ out' = [k \in 1..Len(ids) |-> touched[ids[k]]]
        /\ UNCHANGED turnVars

NextOptimized == OptimizedStoreCall \/ OptimizedRetrieveCall

SpecOptimized == InitOptimized /\ [][NextOptimized]_vars

\* The line of build_system_context that shows the emotion the state holds
DetectedEmotionLine(ds) == "- Detected User Emotion: " \o ds.detected_user_emotion

(***************************************************************************)
(* ContextBuilder.build_knowledge_context and the expertise line of        *)
(* build_system_context, and SpecContext: one call on a character and a    *)
(* list of retrieved memories.                                             *)
(***************************************************************************)
\* Python sep.join(list)
RECURSIVE Join(_, _)
Join(list, sep) ==
    IF Len(list) = 0 THEN ""
    ELSE IF Len(list) = 1 THEN list[1]
    ELSE list[1] \o sep \o Join(Tail(list), sep)

\* Python f"{x:.1f}" of a number held in tenths
FormatTenths(x) == ToString(x \div 10) \o "." \o ToString(x % 10)

\* "- Use your expertise in: {', '.join(character.knowledge_domains)}"
ExpertiseLine(knowledge_domains) ==
    "- Use your expertise in: " \o Join(knowledge_domains, ", ")

\* for mem in db_memories[:5]
ContextMemoryLimit == 5

\* The lines of the memories i.. of a list; importance_score is a REAL column
RECURSIVE MemoryLines(_, _)
MemoryLines(db_memories, i) ==
    IF i > Len(db_memories) THEN ""
    ELSE "- " \o db_memories[i].content \o " (importance: "
         \o FormatTenths(10 * db_memories[i].importance) \o "/10)\n"
         \o MemoryLines(db_memories, i + 1)

\* ContextBuilder.build_knowledge_context; personal_interests is the list of
\* the items of the dict
build_knowledge_context(character_memory, db_memories) ==
    RStrip(
        "WHAT YOU REMEMBER ABOUT THE USER:\n"
        \o "- Rapport Level: " \o FormatTenths(character_memory.rapport_level) \o "/1.0\n"
        \o "- Trust Level: " \o FormatTenths(character_memory.trust_level) \o "/1.0\n"
        \o "- Detected Learning Style: " \o character_memory.learning_style_detected \o "\n"
        \o (IF Len(character_memory.known_strengths) > 0
            THEN "- Known Strengths: " \o Join(character_memory.known_strengths, ", ") \o "\n"
            ELSE "")
        \o (IF Len(character_memory.known_weaknesses) > 0
            THEN "- Areas to Support: " \o Join(character_memory.known_weaknesses, ", ") \o "\n"
            ELSE "")
        \o (IF Len(character_memory.preferred_topics) > 0
            THEN "- Enjoys Topics: " \o Join(character_memory.preferred_topics, ", ") \o "\n"
            ELSE "")
        \o (IF Len(character_memory.personal_interests) > 0
            THEN "- Personal Interests: "
                 \o Join([i \in 1..Len(character_memory.personal_interests) |->
                            character_memory.personal_interests[i][1] \o "("
                            \o FormatTenths(character_memory.personal_interests[i][2]) \o ")"],
                         ", ")
                 \o "\n"
            ELSE "")
        \o (IF Len(db_memories) > 0
            THEN "\nSPECIFIC MEMORIES:\n"
                 \o MemoryLines(SubSeq(db_memories, 1, Min(ContextMemoryLimit, Len(db_memories))), 1)
            ELSE ""))

\* The relationship memories of the calls: the CharacterMemory() defaults
\* and filled lists
CharacterMemories ==
    [rapport_level : {5}, trust_level : {5, 10}, learning_style_detected : {"unknown"},
     known_strengths : {<<>>, <<"vocabulary">>, <<"vocabulary", "listening">>},
     known_weaknesses : {<<>>, <<"grammar">>},
     preferred_topics : {<<>>, <<"sauna", "sisu">>},
     avoided_topics : {<<>>, <<"politics">>},
     personal_interests : {<<>>, <<<<"music", 8>>>>}]

\* The knowledge_domains of EnhancedCharacter() and of create_aino_enhanced
KnowledgeDomains ==
    {<<>>, <<"finnish_language", "finnish_culture", "pronunciation", "grammar">>}

\* The first n rows of a retrieval
RetrievedMemories(n) == [i \in 1..n |-> [content |-> "note " \o ToString(i), importance |-> 5]]

NoContext == [called |-> FALSE, system |-> "", knowledge |-> ""]

InitContext ==
    /\ TurnWorldInit
    /\ memory = <<>>
    /\ clock = 0
    /\ inp \in [character_memory : CharacterMemories, knowledge_domains : KnowledgeDomains,
                db_memories : {RetrievedMemories(n) : n \in 0..(MaxMemoryList + 1)}]
    /\ out = NoContext

ContextCall ==
    /\ ~out.called
    /\ out' = [called |-> TRUE,
               system |-> ExpertiseLine(inp.knowledge_domains),
               knowledge |-> build_knowledge_context(inp.character_memory, inp.db_memories)]
    /\ UNCHANGED <<turnVars, memory, clock, inp>>

NextContext == ContextCall

SpecContext == InitContext /\ [][NextContext]_vars

(***************************************************************************)
(* CLAIMS                                                                  *)
(***************************************************************************)

\* C4 (SpecAdapt): from any dynamic state with current_patience and
\* energy_level in [0,1], after any finite sequence of adapt_character_state
\* calls with any emotions, both scalars are still in [0,1].
C4_ScalarsStayInUnitRange ==
    /\ out.current_patience \in 0..FullScale
    /\ out.energy_level \in 0..FullScale

\* C4 witness: a call with a patience-raising emotion has run into the clamp
\* while energy sits at the clamp too.
C4_Witness ==
    /\ inp = OVERWHELMED
    /\ out.current_patience = FullScale
    /\ out.energy_level = FullScale
    /\ out.adaptation_mode = "supportive"

\* The frustration cues as the claim lists them.
C5_Cues == {"confused", "don't understand", "frustrated", "stuck", "hard", "difficult"}

C6_RetrievalFiltersAndLimits ==
    (inp.op = "get") =>
        /\ Len(out) <= inp.limit
        /\ \A k \in 1..Len(out) :
            /\ out[k].importance_score >= inp.min_importance
            /\ out[k].character_name = inp.character_name
            /\ out[k].user_id = inp.user_id

\* C6 witness: a retrieval returned exactly limit rows while the table held
\* a further matching row, a row of the pair below m or a row of another pair.
C6_Witness ==
    /\ inp.op = "get"
    /\ inp.limit = 1 /\ Len(out) = 1
    /\ Cardinality(Matching(memory, inp.character_name, inp.user_id, inp.min_importance)) = 2
    /\ \E i \in 1..Len(memory) :
        \/ memory[i].user_id # inp.user_id
        \/ memory[i].importance_score < inp.min_importance

\* C7 as claimed (SpecMem): the returned list is sorted non-increasing by
\* (importance, last_accessed), also when rows differ in confidence_score.
C7_SortedByImportanceThenRecency ==
    (inp.op = "get") =>
        \A j, k \in 1..Len(out) :
            j < k =>
                \/ out[j].importance_score > out[k].importance_score
                \/ /\ out[j].importance_score = out[k].importance_score
                   /\ out[j].last_accessed >= out[k].last_accessed

\* C7 amended (SpecMem): the list returned by get_enhanced_memories is
\* sorted non-increasing by (importance, confidence_score, last_accessed).
C7_SortedByImportanceConfidenceRecency ==
    (inp.op = "get") =>
        \A j, k \in 1..Len(out) :
            j < k =>
                \/ out[j].importance_score > out[k].importance_score
                \/ /\ out[j].importance_score = out[k].importance_score
                   /\ out[j].confidence_score > out[k].confidence_score
                \/ /\ out[j].importance_score = out[k].importance_score
                   /\ out[j].confidence_score = out[k].confidence_score
                   /\ out[j].last_accessed >= out[k].last_accessed

\* C7 witness: two rows of equal importance came back with the more
\* confident one first although the other was accessed more recently.
C7_Witness ==
    /\ inp.op = "get"
    /\ Len(out) = 2
    /\ out[1].importance_score = out[2].importance_score
    /\ out[1].confidence_score > out[2].confidence_score
    /\ out[1].last_accessed < out[2].last_accessed

C9_BudgetWithinBounds ==
    out # NoResult => (out[1] \in Int /\ 200 <= out[1] /\ out[1] <= 700)

\* C9 witness: the budget of an unknown character for the empty message and
\* the empty memory list, where the uncapped product is below the floor.
C9_Witness ==
    /\ out = <<200>>
    /\ inp.name = "Zed" /\ inp.user_message = "" /\ inp.n_memories = 0
    /\ CalculatedTokens(inp.name, inp.patience_level, inp.formality_level,
                        inp.enthusiasm_level, inp.user_message, inp.n_memories) < 200

\* C1: if the language-model call of a turn raises (a timeout included), the
\* turn leaves the Dynamic State of every character and the whole memory
\* table, access_count and last_accessed included, exactly as they were when
\* the turn began.
C1_FailedCallLeavesNoTrace ==
    (pc[1] = "done" /\ loc[1].api = "error")
        => /\ characters = snap.characters
           /\ memory = snap.memory

\* C2: a turn for a (character, user) pair that has had no earlier turn reads
\* the default Dynamic State (patience 0.5, energy 0.7, mode balanced),
\* whatever turns other users have had with the character.
C2_FirstTurnStartsFromDefault ==
    \A t \in Slots :
        (pc[t] = "loaded" /\ <<args[t].character_name, args[t].user_id>> \notin served)
            => TurnState(t) = DefaultDynamicState

\* The outcome record of the call made in slot t
C3_OutcomeOf(t) == CHOOSE o \in ApiOutcomes : o.kind = loc[t].api

\* The world after the turn of slot s and then the turn of slot t, each run
\* alone, from the world in which the first of them began
C3_OneAfterTheOther(s, t) ==
    SerialTurn(
        SerialTurn(snap, args[s].character_name, args[s].user_id, args[s].user_message,
                   C3_OutcomeOf(s)),
        args[t].character_name, args[t].user_id, args[t].user_message, C3_OutcomeOf(t))

\* C3: after two turns for one (character, user) pair that were started
\* concurrently, the Dynamic State and the memory table (times of day aside)
\* are those of running the two turns one after the other in some order.
C3_SamePairTurnsSerialized ==
    (/\ pc[1] = "done" /\ pc[2] = "done"
     /\ args[1].character_name = args[2].character_name
     /\ args[1].user_id = args[2].user_id)
        => \E order \in {<<1, 2>>, <<2, 1>>} :
              LET w == C3_OneAfterTheOther(order[1], order[2])
              IN /\ characters = w.characters
                 /\ WithoutTimes(memory) = WithoutTimes(w.memory)

\* The fallback strings of the two characters, written out: by character,
\* adaptation mode and error
C10_FallbackReply(name, adaptation_mode, kind) ==
    (IF name = "Mase"
     THEN "Yo, tech hiccup on my end! Running on moderate patience here."
             \o (IF adaptation_mode = "energetic"
                 THEN " I was ready to drop some knowledge too!" ELSE "")
     ELSE "Anteeksi (sorry)! I'm having connection issues, but I'm still here with very high patience to help you learn Finnish!"
             \o (IF adaptation_mode = "supportive"
                 THEN " Let's take this step by step when I'm back online." ELSE ""))
    \o (IF kind = "error" THEN " (Technical: Request timed out....)" ELSE "")

\* C10: in every turn whose language-model call finds no key or raises, the
\* reply is non-empty and is the fallback string fixed by the serving
\* character (its name, patience and adaptation mode) and the error; and
\* every turn that has begun reaches its return.
C10_FallbackReplyAlways ==
    /\ [](\A t \in Slots :
            (pc[t] \in {"called", "done"} /\ loc[t].api # "ok")
                => /\ loc[t].response_text # ""
                   /\ loc[t].response_text =
                          C10_FallbackReply(loc[t].name, TurnState(t).adaptation_mode, loc[t].api))
    /\ (pc[1] = "loaded") ~> (pc[1] = "done")

\* Aino, made supportive by a frustrated user, answers a call that timed out
C10_Witness ==
    /\ pc[1] = "done"
    /\ loc[1].api = "error"
    /\ loc[1].name = "Aino"
    /\ loc[1].response_text =
          "Anteeksi (sorry)! I'm having connection issues, but I'm still here with very high patience to help you learn Finnish! Let's take this step by step when I'm back online. (Technical: Request timed out....)"


\* C11: in every turn whose reply is a fallback string (no API key, or the
\* call raised), no row added to the memory table by that turn carries text
\* of the reply.
C11_FallbackReplyNotStored ==
    (pc[1] = "done" /\ loc[1].api # "ok")
        => \A i \in (Len(snap.memory) + 1)..Len(memory) :
              ~Contains(memory[i].content, Prefix(loc[1].response_text, 30))


\* C12: a turn in which the memory retrieval raised is not aborted: it never
\* ends with the error handed to the caller in place of a reply.
C12_RetrievalFailureDegrades ==
    \A t \in Slots : ~(pc[t] = "raised" /\ loc[t].raised = DatabaseError)

\* C13: a turn in which the INSERT of the memory row raised does not return
\* a reply as if nothing had happened: no turn is done with a write error.
C13_WriteFailurePropagates ==
    \A t \in Slots : pc[t] = "done" => loc[t].write_error = ""


\* C14: after every turn whose model call answered, the Dynamic State the
\* turn produced is the row of character_states for the pair, which is what
\* load_character_state hands to the pair's next turn.
C14_StatePersistedAfterTurn ==
    (pc[1] = "done" /\ loc[1].api = "ok")
        => character_states[<<args[1].character_name, args[1].user_id>>] = <<TurnState(1)>>


\* C15 as stated: from every reachable Dynamic State each of the three
\* adaptation modes, balanced included, can be reached again by some sequence
\* of detected emotions.
C15_EveryModeReachableAgain ==
    AdaptationModes \subseteq ModesAhead(out)

\* C15 as the adapter has it: the mode is always one of the three, starts as
\* balanced, and from every reachable Dynamic State supportive and
\* challenging can be reached again; balanced can be reached only by staying
\* in it, so once a handled emotion has been detected no sequence of emotions
\* leads back to balanced.
C15_BalancedOnlyInitially ==
    /\ out.adaptation_mode \in AdaptationModes
    /\ inp = None => out.adaptation_mode = "balanced"
    /\ {"supportive", "challenging"} \subseteq ModesAhead(out)
    /\ "balanced" \in ModesAhead(out) <=> out.adaptation_mode = "balanced"

\* The machine has left balanced, been supportive (patience 0.8 comes from a
\* frustrated user) and is now challenging
C15_Witness ==
    /\ inp = EXCITED
    /\ out.adaptation_mode = "challenging"
    /\ out.current_patience = 8
    /\ ModesAhead(out) = {"supportive", "challenging"}


\* C16: a call of adapt_character_state with an emotion that has no table
\* entry (ENGAGED, CURIOUS, CONFIDENT) leaves every field of the Dynamic
\* State as it was: patience, energy, mode and the recorded emotion.
C16_UnhandledEmotionIsNoOp ==
    [][inp' \in {ENGAGED, CURIOUS, CONFIDENT} => out' = out]_vars

\* A curious message after a frustrated one: the state still shows the
\* frustrated turn
C16_Witness ==
    /\ inp = CURIOUS
    /\ out.adaptation_mode = "supportive"
    /\ out.detected_user_emotion = FRUSTRATED
    /\ out.current_patience = 8


\* The entries of the metadata that hold a number
C17_NumberKeys == {"timestamp", "user_message_length", "response_length", "emotion_confidence"}

\* C17: the metadata returned with the reply of a turn whose model call
\* answered carries the detected emotion, its confidence, the adaptation mode
\* and, under some key, the token budget that was used for the call.
C17_MetadataCarriesBudget ==
    \A t \in Slots :
        (pc[t] = "done" /\ loc[t].api = "ok")
            => LET md == loc[t].metadata[1]
               IN /\ md.user_emotion = loc[t].user_emotion
                  /\ md.emotion_confidence = loc[t].emotion_confidence
                  /\ md.adaptation_mode = TurnState(t).adaptation_mode
                  /\ \E k \in C17_NumberKeys : <<md[k]>> = loc[t].max_tokens


\* The four rules in the order of the claim: whether the cue of rule k holds
\* for a message
C18_CueHolds(k, message) ==
    LET lower == Lower(message)
    IN CASE k = 1 -> AnyIn({"confused", "don't understand", "frustrated", "stuck", "hard",
                            "difficult"}, lower)
         [] k = 2 -> AnyIn({"awesome", "cool", "amazing", "love this", "great", "excited"}, lower)
         [] k = 3 -> \/ AnyIn({"what", "how", "why", "explain", "huh", "?"}, lower)
                     \/ CountChar(message, "?") > 1
         [] k = 4 -> \/ AnyIn({"boring", "tired", "whatever", "ok", "sure"}, lower)
                     \/ Len(message) < 10

\* The emotion and the confidence (in tenths) of each rule
C18_RuleResult == <<<<FRUSTRATED, 8>>, <<EXCITED, 7>>, <<CONFUSED, 6>>, <<BORED, 5>>>>

C19_BlankMessageIsDefault ==
    (out # NoResult /\ \A i \in 1..Len(inp) : IsSpace(SubSeq(inp, i, i)))
        => out = <<ENGAGED, 3>>

\* The keywords of the four categories, the question mark aside
C20_Keywords ==
    {"confused", "don't understand", "frustrated", "stuck", "hard", "difficult",
     "awesome", "cool", "amazing", "love this", "great", "excited",
     "what", "how", "why", "explain", "huh",
     "boring", "tired", "whatever", "ok", "sure"}

\* C20: for a message of 10 characters or more with no keyword of any
\* category and at most one question mark, detect_user_emotion returns
\* (ENGAGED, 0.3).
C20_PlainMessageIsEngaged ==
    (/\ out # NoResult
     /\ Len(inp) >= 10
     /\ ~AnyIn(C20_Keywords, Lower(inp))
     /\ CountChar(inp, "?") <= 1)
        => out = <<ENGAGED, 3>>


\* C21: a message in which the user says they are confused (and asks for an
\* explanation) is detected as CONFUSED.
C21_ConfusedMessageIsConfused ==
    (/\ out # NoResult
     /\ inp \in {"I'm really confused about Finnish grammar, can you explain it again?",
                 "I'm confused about investment strategies. There's so much information..."})
        => out[1] = CONFUSED


\* C22: for the user message "I'm really confused about Finnish grammar,
\* can you explain it again?" and any character response,
\* extract_memories_from_conversation returns at least one record of the
\* learning memory type with importance 8 or more.
C22_ConfusedMessageYieldsLearningRecord ==
    (/\ out.called
     /\ inp.user_message = "I'm really confused about Finnish grammar, can you explain it again?")
        => \E m \in 1..Len(out.memories) :
              /\ out.memories[m].memory_type \in {"learning_style", "learning_pattern"}
              /\ out.memories[m].importance_score >= 8

\* Text with no whitespace at either end and no whitespace inside other
\* than single blanks
C29_WhitespaceNormalized(content) ==
    /\ \A i \in 1..Len(content) : SubSeq(content, i, i) \notin {"\t", "\n"}
    /\ \A i \in 1..(Len(content) - 1) : SubSeq(content, i, i + 1) # "  "
    /\ Len(content) > 0 => (SubSeq(content, 1, 1) # " "
                            /\ SubSeq(content, Len(content), Len(content)) # " ")

\* C29: every record returned by extract_memories_from_conversation has
\* whitespace-normalized content of at most 200 characters and an importance
\* in 1..10.
C29_RecordsCleanAndBounded ==
    out.called
        => \A m \in 1..Len(out.memories) :
              /\ C29_WhitespaceNormalized(out.memories[m].content)
              /\ Len(out.memories[m].content) <= 200
              /\ out.memories[m].importance_score \in 1..10


\* The lines of a text: the pieces between its newlines, from position i on
RECURSIVE C23_Lines(_, _)
C23_Lines(text, i) ==
    LET breaks == {j \in i..Len(text) : SubSeq(text, j, j) = "\n"}
    IN IF breaks = {} THEN <<SubSeq(text, i, Len(text))>>
       ELSE LET j == CHOOSE j \in breaks : \A h \in breaks : j <= h
            IN <<SubSeq(text, i, j - 1)>> \o C23_Lines(text, j + 1)

\* The line of one turn: its sender and its content cut to 200 characters
C23_LineOf(msg) ==
    (IF "sender" \in DOMAIN msg THEN msg.sender ELSE "Unknown") \o ": "
    \o (IF "content" \in DOMAIN msg
        THEN SubSeq(msg.content, 1, IF Len(msg.content) < 200 THEN Len(msg.content) ELSE 200)
        ELSE "")

C24_Order ==
    {<<"idle", "loaded">>, <<"loaded", "adapted">>, <<"adapted", "retrieved">>,
     <<"retrieved", "called">>, <<"called", "done">>, <<"done", "idle">>}

\* The first n characters of a text
C24_Cut(text, n) == SubSeq(text, 1, IF Len(text) < n THEN Len(text) ELSE n)

C25_OnlyReturnedRecordsTouched ==
    [][inp'.op = "get"
          => \A i \in 1..Len(memory) :
                IF \E k \in 1..Len(inp'.ids) : inp'.ids[k] = i
                THEN memory'[i] = [memory[i] EXCEPT !.last_accessed = clock]
                ELSE memory'[i] = memory[i]]_vars


\* The patience and energy deltas (in tenths) and the mode of each emotion
\* with a table entry, as the claim lists them
C26_Entry ==
    (FRUSTRATED :> [patience |-> 3, energy |-> 0, mode |-> "supportive"]) @@
    (CONFUSED :> [patience |-> 4, energy |-> 0, mode |-> "supportive"]) @@
    (OVERWHELMED :> [patience |-> 5, energy |-> 0, mode |-> "supportive"]) @@
    (EXCITED :> [patience |-> 0, energy |-> 2, mode |-> "challenging"]) @@
    (BORED :> [patience |-> 0, energy |-> 4, mode |-> "challenging"])

\* C26: for each emotion with a table entry, adapt_character_state makes
\* current_patience min(1, patience + d) with d = 0.3, 0.4, 0.5 for
\* FRUSTRATED, CONFUSED, OVERWHELMED, energy_level min(1, energy + d) with
\* d = 0.2, 0.4 for EXCITED, BORED, leaves the other scalar as it was, and
\* sets the mode to supportive (the first three) or challenging (the last two).
C26_TableEntryApplied ==
    [][inp' \in DOMAIN C26_Entry
          => /\ out'.current_patience =
                   IF out.current_patience + C26_Entry[inp'].patience < 10
                   THEN out.current_patience + C26_Entry[inp'].patience ELSE 10
             /\ out'.energy_level =
                   IF out.energy_level + C26_Entry[inp'].energy < 10
                   THEN out.energy_level + C26_Entry[inp'].energy ELSE 10
             /\ out'.adaptation_mode = C26_Entry[inp'].mode]_vars

\* A confused user met a character of patience 0.5: patience 0.9, energy as
\* it was, mode supportive
C26_Witness ==
    /\ inp = CONFUSED
    /\ out.current_patience = 9
    /\ out.energy_level = 7
    /\ out.adaptation_mode = "supportive"

\* The dynamic state after n more adapt calls with the same emotion
RECURSIVE C27_Repeated(_, _, _)
C27_Repeated(ds, user_emotion, n) ==
    IF n = 0 THEN ds
    ELSE C27_Repeated(adapt_character_state(ds, user_emotion), user_emotion, n - 1)

\* C27: from every state, four more calls with the same patience-raising
\* emotion bring current_patience to exactly 1.0, and five more calls with
\* the same energy-raising emotion bring energy_level to exactly 1.0; a
\* scalar at 1.0 stays at 1.0 in every further call; and no call lowers
\* current_patience or energy_level.
C27_Saturation ==
    /\ [](/\ \A e \in {FRUSTRATED, CONFUSED, OVERWHELMED} :
                C27_Repeated(out, e, 4).current_patience = 10
          /\ \A e \in {EXCITED, BORED} :
                C27_Repeated(out, e, 5).energy_level = 10)
    /\ [][/\ out'.current_patience >= out.current_patience
          /\ out'.energy_level >= out.energy_level
          /\ out.current_patience = 10 => out'.current_patience = 10
          /\ out.energy_level = 10 => out'.energy_level = 10]_vars

\* Patience is at the clamp after a frustrated call and an excited call has
\* followed
C27_Witness ==
    /\ inp = EXCITED
    /\ out.current_patience = 10
    /\ out.detected_user_emotion = EXCITED
    /\ out.energy_level = 9

\* C28: detected_user_emotion changes only in a call whose emotion has a
\* table entry, and then to that emotion; a call with ENGAGED, CURIOUS or
\* CONFIDENT leaves the value of an earlier call, so once the value is not
\* ENGAGED it is never ENGAGED again and the emotion the prompt shows can
\* differ from the emotion detected for the current message.
C28_DetectedEmotionIsSticky ==
    [][/\ out'.detected_user_emotion # out.detected_user_emotion
             => /\ inp' \in {FRUSTRATED, EXCITED, CONFUSED, BORED, OVERWHELMED}
                /\ out'.detected_user_emotion = inp'
       /\ inp' \in {ENGAGED, CURIOUS, CONFIDENT}
             => DetectedEmotionLine(out') = DetectedEmotionLine(out)
       /\ out.detected_user_emotion # ENGAGED => out'.detected_user_emotion # ENGAGED]_vars

\* An engaged message after a frustrated one: the prompt still shows the
\* frustrated user
C28_Witness ==
    /\ inp = ENGAGED
    /\ DetectedEmotionLine(out) = "- Detected User Emotion: frustrated"


\* The lines of a text, from position i on
RECURSIVE C30_Lines(_, _)
C30_Lines(text, i) ==
    LET breaks == {j \in i..Len(text) : SubSeq(text, j, j) = "\n"}
    IN IF breaks = {} THEN <<SubSeq(text, i, Len(text))>>
       ELSE LET j == CHOOSE j \in breaks : \A h \in breaks : j <= h
            IN <<SubSeq(text, i, j - 1)>> \o C30_Lines(text, j + 1)

\* The list joined with ", "
RECURSIVE C30_Joined(_)
C30_Joined(list) ==
    IF Len(list) = 0 THEN ""
    ELSE IF Len(list) = 1 THEN list[1]
    ELSE list[1] \o ", " \o C30_Joined(Tail(list))

\* A line of the prompt ends with the joined list
C30_HasLineFor(lines, list) ==
    \E k \in 1..Len(lines) :
        /\ Len(lines[k]) > Len(C30_Joined(list))
        /\ SubSeq(lines[k], Len(lines[k]) - Len(C30_Joined(list)) + 1, Len(lines[k]))
              = C30_Joined(list)

\* A line of the prompt starts with the label
C30_HasLabel(lines, label) ==
    \E k \in 1..Len(lines) :
        Len(lines[k]) >= Len(label) /\ SubSeq(lines[k], 1, Len(label)) = label

\* C30: an empty list (knowledge_domains, known_strengths, known_weaknesses,
\* preferred_topics, avoided_topics, the retrieved memories) produces no
\* line in the prompt, every such list that is not empty is rendered joined
\* on a line of its own, and at most 5 retrieved memories are rendered.
C30_EmptyOmittedNonEmptyRendered ==
    out.called
        => LET lines == <<out.system>> \o C30_Lines(out.knowledge, 1)
               cm == inp.character_memory
           IN /\ inp.knowledge_domains = <<>> => ~C30_HasLabel(lines, "- Use your expertise in:")
              /\ inp.knowledge_domains # <<>> => C30_HasLineFor(lines, inp.knowledge_domains)
              /\ cm.known_strengths = <<>> => ~C30_HasLabel(lines, "- Known Strengths:")
              /\ cm.known_strengths # <<>> => C30_HasLineFor(lines, cm.known_strengths)
              /\ cm.known_weaknesses = <<>> => ~C30_HasLabel(lines, "- Areas to Support:")
              /\ cm.known_weaknesses # <<>> => C30_HasLineFor(lines, cm.known_weaknesses)
              /\ cm.preferred_topics = <<>> => ~C30_HasLabel(lines, "- Enjoys Topics:")
              /\ cm.preferred_topics # <<>> => C30_HasLineFor(lines, cm.preferred_topics)
              /\ cm.avoided_topics # <<>> => C30_HasLineFor(lines, cm.avoided_topics)
              /\ inp.db_memories = <<>> => ~C30_HasLabel(lines, "SPECIFIC MEMORIES:")
              /\ Cardinality({k \in 1..Len(lines) : C30_HasLabel(<<lines[k]>>, "- note ")})
                    = IF Len(inp.db_memories) < 5 THEN Len(inp.db_memories) ELSE 5

====
